---- MODULE Spec2Model ----
(***************************************************************************)
(* Model of src/app.py: a Streamlit dashboard over a DynamoDB table store. *)
(*                                                                         *)
(* Every rerun of the script is one handler run.  Create Table, Insert     *)
(* Records and Fetch Records are one action each (the handler with every   *)
(* store call it makes).  The Query Record handler makes three reads of    *)
(* the store in a row (scan, query, get_item); it is modelled call by call *)
(* with a program counter, so that a specification with an external writer *)
(* can interleave with it.  Strings whose characters matter (the generated *)
(* attributes) are sequences of one-character strings; str() and the       *)
(* store's typed attribute values (S / N) are modelled by what they do.    *)
(***************************************************************************)
EXTENDS Integers, Sequences, FiniteSets

VARIABLES
    store,       \* the external store: table name -> set of stored items
    table_name,  \* st.session_state.table_name
    log,         \* st.session_state.log
    pc,          \* position of the running handler ("idle": waiting for the operator)
    q,           \* locals of query_record_ui: dates, selected_date, ids, selected_id
    ui           \* what the last rerun did and rendered

vars == <<store, table_name, log, pc, q, ui>>

----------------------------------------------------------------------------
(* Bounds of the model *)

\* largest number of records the operator asks Insert Records for
MaxRows == 5
\* number of items in one page of a scan/query response (stands for the
\* store's 1 MB limit on one response)
PageLimit == 4
\* the log is unbounded in the code; actions that append are cut off here
MaxLog == 2

\* what the operator may type into "Enter Table Name:"
NameInputs == {"", "T"}

----------------------------------------------------------------------------
(* Strings *)

Digit == <<"0", "1", "2", "3", "4", "5", "6", "7", "8", "9">>

\* str(n) for n >= 0
RECURSIVE Str(_)
Str(n) == IF n < 10 THEN <<Digit[n + 1]>>
          ELSE Str(n \div 10) \o <<Digit[(n % 10) + 1]>>

DigitValue(c) == CHOOSE d \in 0..9 : Digit[d + 1] = c

\* the number a decimal string denotes (the store's N type read back)
RECURSIVE ParseDec(_)
ParseDec(s) == IF Len(s) = 0 THEN 0
               ELSE 10 * ParseDec(SubSeq(s, 1, Len(s) - 1)) + DigitValue(s[Len(s)])

\* code points of the characters that occur in partition keys
Ord(c) == IF c = "-" THEN 45 ELSE 48 + DigitValue(c)

\* Python's str < str: lexicographic on code points, a proper prefix is smaller
RECURSIVE StrLess(_, _)
StrLess(a, b) ==
    IF Len(b) = 0 THEN FALSE
    ELSE IF Len(a) = 0 THEN TRUE
    ELSE IF Ord(a[1]) # Ord(b[1]) THEN Ord(a[1]) < Ord(b[1])
    ELSE StrLess(Tail(a), Tail(b))

\* sorted(S) for a set of strings
RECURSIVE Sorted(_)
Sorted(S) ==
    IF S = {} THEN <<>>
    ELSE LET m == CHOOSE x \in S : \A y \in S \ {x} : StrLess(x, y)
         IN  <<m>> \o Sorted(S \ {m})

Range(s) == {s[k] : k \in 1..Len(s)}

----------------------------------------------------------------------------
(* Record generator: the loop body of insert_records *)

DatePrefix == <<"2", "0", "2", "5", "-", "1", "1", "-">>
FactoryPrefix == <<"F", "a", "c", "t", "o", "r", "y", "_">>
MetricPrefix == <<"M", "e", "t", "r", "i", "c", "_">>

Columns == {"date", "id", "factory_name", "metric", "value"}

\* the generator with the factory label cycling over two labels
ItemCycleTwo(i) ==
    [date         |-> DatePrefix \o Str(10 + i),
     id           |-> Str(i + 1),
     factory_name |-> FactoryPrefix \o Str((i % 2) + 1),
     metric       |-> MetricPrefix \o Str(i + 1),
     value        |-> i * 10]

Item(i) ==
    [date         |-> DatePrefix \o Str(10 + i),
     id           |-> Str(i + 1),
     factory_name |-> FactoryPrefix \o Str((i % 3) + 1),
     metric       |-> MetricPrefix \o Str(i + 1),
     value        |-> i * 10]

\* the items put, in order, by "for i in range(num_rows)"
Generate(n) == [k \in 1..n |-> Item(k - 1)]

----------------------------------------------------------------------------
(* The store *)

\* a write that stores the number without its last digit
SerializeTruncated(it) ==
    [date         |-> [S |-> it.date],
     id           |-> [S |-> it.id],
     factory_name |-> [S |-> it.factory_name],
     metric       |-> [S |-> it.metric],
     value        |-> [N |-> Str(it.value \div 10)]]

\* an item as the store holds it: strings as S, the number as N (its decimal text)
Serialize(it) ==
    [date         |-> [S |-> it.date],
     id           |-> [S |-> it.id],
     factory_name |-> [S |-> it.factory_name],
     metric       |-> [S |-> it.metric],
     value        |-> [N |-> Str(it.value)]]

\* an item as a response hands it back
Deserialize(st) ==
    [date         |-> st.date.S,
     id           |-> st.id.S,
     factory_name |-> st.factory_name.S,
     metric       |-> st.metric.S,
     value        |-> ParseDec(st.value.N)]

SameKey(a, b) == a.date = b.date /\ a.id = b.id

\* put_item: replaces the item with the same (date, id), if any
PutItem(items, it) ==
    {x \in items : ~SameKey(x, Serialize(it))} \cup {Serialize(it)}

RECURSIVE PutAll(_, _, _)
PutAll(items, batch, k) ==
    IF k = 0 THEN items
    ELSE PutItem(PutAll(items, batch, k - 1), batch[k])

\* one response page of a scan or query over S: everything when it fits in a
\* page, otherwise PageLimit items in an order the store chooses
Pages(S) ==
    IF Cardinality(S) <= PageLimit THEN {S}
    ELSE {P \in SUBSET S : Cardinality(P) = PageLimit}

\* the error a table operation on `name` raises by itself, "none" if none
TableError(name) ==
    IF name = "" THEN "ValidationException"
    ELSE IF name \notin DOMAIN store THEN "ResourceNotFoundException"
    ELSE "none"

None == <<"None">>

NoQuery == [dates |-> <<>>, selected_date |-> None, ids |-> {}, selected_id |-> None]

\* what a rerun rendered: the action, its outcome, the table name it used, the
\* store requests it issued, the error it caught, what it displayed, and for
\* Insert Records the number asked for and the items generated
Report(op, outcome, name, calls, err, shown, n, batch) ==
    [op |-> op, outcome |-> outcome, name |-> name, calls |-> calls,
     err |-> err, shown |-> shown, n |-> n, batch |-> batch]

Blank == Report("none", "Rendered", "", <<>>, "none", {}, 0, <<>>)

LogAppend(entry) ==
    /\ Len(log) < MaxLog
    /\ log' = Append(log, entry)

----------------------------------------------------------------------------
Init ==
    /\ store = [n \in {} |-> {}]
    /\ table_name = ""
    /\ log = <<>>
    /\ pc = "idle"
    /\ q = NoQuery
    /\ ui = Blank

\* the text input of the Create / Insert / Fetch pages: a rerun that only
\* stores the name
EnterTableName ==
    /\ pc = "idle"
    /\ \E name \in NameInputs : table_name' = name
    /\ ui' = Blank
    /\ UNCHANGED <<store, log, pc, q>>

----------------------------------------------------------------------------
(* Outcomes *)

\* Fetch Records without its except clause: the error leaves the handler
FailedOutcomeFetchEscapes(op) ==
    CASE op = "create" -> "CreateFailed"
      [] op = "insert" -> "InsertFailed"
      [] op = "fetch"  -> "Uncaught"
      [] op = "query"  -> "QueryFailed"

\* the outcome an action reports when its except clause catches an error
FailedOutcome(op) ==
    CASE op = "create" -> "CreateFailed"
      [] op = "insert" -> "InsertFailed"
      [] op = "fetch"  -> "FetchFailed"
      [] op = "query"  -> "QueryFailed"

LogEntry(op, ok, name, n, msg) ==
    [op |-> op, ok |-> ok, name |-> name, n |-> n, msg |-> msg]

----------------------------------------------------------------------------
(* Create Table *)

\* create_table without the look-up of the name among the existing tables:
\* the creation request is always issued, and the store rejects a second
\* table of the same name
CreateResultNoCheck(name, fault) ==
    IF fault = 1
    THEN [outcome |-> FailedOutcome("create"), calls |-> <<"list_tables">>,
          err |-> "ServiceError", created |-> FALSE]
    ELSE IF name \in DOMAIN store
    THEN [outcome |-> FailedOutcome("create"),
          calls |-> <<"list_tables", "create_table">>,
          err |-> "ResourceInUseException", created |-> FALSE]
    ELSE IF name = "" \/ fault = 2
    THEN [outcome |-> FailedOutcome("create"),
          calls |-> <<"list_tables", "create_table">>,
          err |-> "ServiceError", created |-> FALSE]
    ELSE IF fault = 3
    THEN [outcome |-> FailedOutcome("create"),
          calls |-> <<"list_tables", "create_table", "wait_table_exists">>,
          err |-> "ServiceError", created |-> TRUE]
    ELSE [outcome |-> "Created",
          calls |-> <<"list_tables", "create_table", "wait_table_exists">>,
          err |-> "none", created |-> TRUE]

\* create_table(name) where the fault-th store call (0: none) raises: the
\* outcome, the requests issued, the error caught, and whether the creation
\* request was accepted by the store
CreateResult(name, fault) ==
    IF fault = 1
    THEN [outcome |-> FailedOutcome("create"), calls |-> <<"list_tables">>,
          err |-> "ServiceError", created |-> FALSE]
    ELSE IF name \in DOMAIN store
    THEN [outcome |-> "AlreadyExists", calls |-> <<"list_tables">>,
          err |-> "none", created |-> FALSE]
    ELSE IF name = ""
    THEN [outcome |-> FailedOutcome("create"),
          calls |-> <<"list_tables", "create_table">>,
          err |-> "ValidationException", created |-> FALSE]
    ELSE IF fault = 2
    THEN [outcome |-> FailedOutcome("create"),
          calls |-> <<"list_tables", "create_table">>,
          err |-> "ServiceError", created |-> FALSE]
    ELSE IF fault = 3
    THEN [outcome |-> FailedOutcome("create"),
          calls |-> <<"list_tables", "create_table", "wait_table_exists">>,
          err |-> "ServiceError", created |-> TRUE]
    ELSE [outcome |-> "Created",
          calls |-> <<"list_tables", "create_table", "wait_table_exists">>,
          err |-> "none", created |-> TRUE]

\* the button of the Create Table page
ClickCreate ==
    /\ pc = "idle"
    /\ \E fault \in 0..3 :
         LET name == table_name
             r == CreateResult(name, fault)
         IN  /\ store' = IF r.created
                         THEN [t \in DOMAIN store \cup {name} |->
                                 IF t = name THEN {} ELSE store[t]]
                         ELSE store
             /\ IF r.outcome = "AlreadyExists"
                THEN log' = log
                ELSE LogAppend(LogEntry("create", r.err = "none",
                                        IF r.err = "none" THEN name ELSE "",
                                        0, r.err))
             /\ ui' = Report("create", r.outcome, name, r.calls, r.err, {}, 0, <<>>)
    /\ UNCHANGED <<table_name, pc, q>>

----------------------------------------------------------------------------
(* Insert Records *)

\* the button of the Insert Records page, with the number input's value n
ClickInsert ==
    /\ pc = "idle"
    /\ \E n \in 1..MaxRows, fault \in BOOLEAN :
         LET name == table_name
             batch == Generate(n)
             err == IF fault THEN "ServiceError" ELSE TableError(name)
         IN  /\ IF err = "none"
                THEN store' = [store EXCEPT ![name] = PutAll(@, batch, n)]
                ELSE IF TableError(name) = "none"
                THEN \* the batched writer is not atomic: what was flushed stays
                     \E k \in 0..(n - 1) :
                        store' = [store EXCEPT ![name] = PutAll(@, batch, k)]
                ELSE store' = store
             /\ IF err = "none"
                THEN /\ LogAppend(LogEntry("insert", TRUE, name, n, "none"))
                     /\ ui' = Report("insert", "Inserted", name,
                                     <<"batch_write_item">>, "none", {}, n, batch)
                ELSE /\ LogAppend(LogEntry("insert", FALSE, "", 0, err))
                     /\ ui' = Report("insert", FailedOutcome("insert"), name,
                                     <<"batch_write_item">>, err, {}, n, batch)
    /\ UNCHANGED <<table_name, pc, q>>

----------------------------------------------------------------------------
(* Fetch Records *)

\* what fetch_records shows of a scan response: response.get("Items", [])
FetchShown(page) == {Deserialize(x) : x \in page}

\* the button of the Fetch Records page
ClickFetch ==
    /\ pc = "idle"
    /\ \E fault \in BOOLEAN :
         LET name == table_name
             err == IF fault THEN "ServiceError" ELSE TableError(name)
         IN  IF err # "none"
             THEN ui' = Report("fetch", FailedOutcome("fetch"), name,
                               <<"scan">>, err, {}, 0, <<>>)
             ELSE \E page \in Pages(store[name]) :
                    ui' = Report("fetch",
                                 IF page = {} THEN "Empty" ELSE "Fetched",
                                 name, <<"scan">>, "none", FetchShown(page), 0, <<>>)
    /\ UNCHANGED <<store, table_name, log, pc, q>>

----------------------------------------------------------------------------
(* Query Record *)

\* the card of a found item: the five attributes the handler renders
Display(item) == [c \in Columns |-> item[c]]

\* the rerun starts: the text input stores the name; an empty name ends it
QueryStart ==
    /\ pc = "idle"
    /\ \E name \in NameInputs :
         /\ table_name' = name
         /\ IF name = ""
            THEN /\ pc' = "idle"
                 /\ ui' = Report("query", "NoTable", name, <<>>, "none", {}, 0, <<>>)
            ELSE /\ pc' = "scan"
                 /\ ui' = Report("query", "Running", name, <<>>, "none", {}, 0, <<>>)
    /\ q' = NoQuery
    /\ UNCHANGED <<store, log>>

\* table.scan(ProjectionExpression = date), then the date select box
QueryScanDates ==
    /\ pc = "scan"
    /\ \E fault \in BOOLEAN :
         LET name == table_name
             calls == <<"scan">>
             err == IF fault THEN "ServiceError" ELSE TableError(name)
         IN  IF err # "none"
             THEN /\ ui' = Report("query", FailedOutcome("query"), name, calls,
                                  err, {}, 0, <<>>)
                  /\ pc' = "idle"
                  /\ q' = q
             ELSE \E page \in Pages(store[name]) :
                    LET dates == Sorted({x.date.S : x \in page})
                    IN  IF dates = <<>>
                        THEN /\ ui' = Report("query", "NoData", name, calls,
                                             "none", {}, 0, <<>>)
                             /\ pc' = "idle"
                             /\ q' = q
                        ELSE /\ \E d \in Range(dates) :
                                  q' = [q EXCEPT !.dates = dates,
                                                 !.selected_date = d]
                             /\ ui' = Report("query", "Running", name, calls,
                                             "none", {}, 0, <<>>)
                             /\ pc' = "query"
    /\ UNCHANGED <<store, table_name, log>>

\* table.query(date = selected_date), then the id select box and the button
QueryListIds ==
    /\ pc = "query"
    /\ \E fault \in BOOLEAN :
         LET name == table_name
             calls == <<"scan", "query">>
             err == IF fault THEN "ServiceError" ELSE TableError(name)
         IN  IF err # "none"
             THEN /\ ui' = Report("query", FailedOutcome("query"), name, calls,
                                  err, {}, 0, <<>>)
                  /\ pc' = "idle"
                  /\ q' = q
             ELSE \E page \in Pages({x \in store[name] :
                                       x.date.S = q.selected_date}) :
                    LET ids == {x.id.S : x \in page}
                    IN  \E sid \in (IF ids = {} THEN {None} ELSE ids),
                           click \in BOOLEAN :
                          /\ q' = [q EXCEPT !.ids = ids, !.selected_id = sid]
                          /\ ui' = Report("query",
                                          IF click THEN "Running" ELSE "Ready",
                                          name, calls, "none", {}, 0, <<>>)
                          /\ pc' = IF click THEN "get" ELSE "idle"
    /\ UNCHANGED <<store, table_name, log>>

\* the button was clicked: table.get_item and the result card
QueryGetItem ==
    /\ pc = "get"
    /\ \E fault \in BOOLEAN :
         LET name == table_name
             calls == <<"scan", "query", "get_item">>
             err == IF fault THEN "ServiceError"
                    ELSE IF TableError(name) # "none" THEN TableError(name)
                    ELSE IF q.selected_id = None THEN "ValidationException"
                    ELSE "none"
         IN  IF err # "none"
             THEN ui' = Report("query", FailedOutcome("query"), name, calls,
                               err, {}, 0, <<>>)
             ELSE LET found == {x \in store[name] :
                                  /\ x.date.S = q.selected_date
                                  /\ x.id.S = q.selected_id}
                  IN  IF found = {}
                      THEN ui' = Report("query", "NotFound", name, calls,
                                        "none", {}, 0, <<>>)
                      ELSE ui' = Report("query", "Found", name, calls, "none",
                                        Display(Deserialize(CHOOSE x \in found : TRUE)), 0,
                                        <<>>)
    /\ pc' = "idle"
    /\ UNCHANGED <<store, table_name, log, q>>

----------------------------------------------------------------------------
(* Another client of the same store removes a record *)
ExternalDelete ==
    /\ \E name \in DOMAIN store :
         \E x \in store[name] :
            store' = [store EXCEPT ![name] = @ \ {x}]
    /\ UNCHANGED <<table_name, log, pc, q, ui>>

----------------------------------------------------------------------------
Next ==
    \/ EnterTableName
    \/ ClickCreate
    \/ ClickInsert
    \/ ClickFetch
    \/ QueryStart
    \/ QueryScanDates
    \/ QueryListIds
    \/ QueryGetItem

\* the dashboard as the only client of the store
Spec == Init /\ [][Next]_vars

\* the dashboard and another client that deletes records
SpecEnv == Init /\ [][Next \/ ExternalDelete]_vars

----------------------------------------------------------------------------
(* Properties *)

IsPrefix(a, b) == Len(a) <= Len(b) /\ SubSeq(b, 1, Len(a)) = a

\* the outcomes that end an operation attempt (not a mere rendering of a page)
AttemptOutcomes ==
    {"Created", "AlreadyExists", "CreateFailed", "Inserted", "InsertFailed",
     "Fetched", "Empty", "FetchFailed", "Found", "NotFound", "NoData",
     "QueryFailed"}

\* C1: every operation attempt, whatever its outcome, appends exactly one
\* entry to the Activity Log, and the log before the action is a prefix of
\* the log after it.
C1_EveryAttemptLogged ==
    [][(pc' = "idle" /\ ui'.outcome \in AttemptOutcomes)
          => (Len(log') = Len(log) + 1 /\ IsPrefix(log, log'))]_vars

\* C2 as stated: createTable(name) on an existing table issues no creation
\* request, yields AlreadyExists and leaves the store unchanged.
C2_ExistingYieldsAlreadyExists ==
    [][(ui'.op = "create" /\ ui'.name \in DOMAIN store)
          => /\ ui'.outcome = "AlreadyExists"
             /\ "create_table" \notin Range(ui'.calls)
             /\ store' = store]_vars

\* C2 amended: createTable(name) on an existing table issues no creation
\* request and leaves the store unchanged; its outcome is AlreadyExists when
\* the listing of the tables returns and CreateFailed when the listing raises.
C2_ExistingNeverCreatedTwice ==
    [][(ui'.op = "create" /\ ui'.name \in DOMAIN store)
          => /\ "create_table" \notin Range(ui'.calls)
             /\ store' = store
             /\ ui'.err = "none" => ui'.outcome = "AlreadyExists"
             /\ ui'.err # "none" => /\ ui'.outcome = "CreateFailed"
                                    /\ ui'.calls = <<"list_tables">>]_vars

\* a second Create Table on a table that holds records
C2_Witness ==
    /\ ui.op = "create"
    /\ ui.outcome = "AlreadyExists"
    /\ ui.name \in DOMAIN store
    /\ store[ui.name] # {}

\* C3: a createTable that ends in CreateFailed leaves the set of tables as
\* it was before the call.
C3_FailedCreateLeavesNoTable ==
    [][(ui'.op = "create" /\ ui'.outcome = "CreateFailed")
          => store' = store]_vars

\* C4: the n records generated by insertBatch(name, n) are n in number, have
\* pairwise distinct (date, id) keys, value 10*i and id str(i+1) at 0-based
\* index i, and a factory label of period 3 with three consecutive labels
\* distinct.
C4_GeneratedBatch ==
    ui.op = "insert" =>
        LET b == ui.batch
            n == ui.n
        IN  /\ n >= 1
            /\ Len(b) = n
            /\ \A i, j \in 0..(n - 1) :
                  i # j => <<b[i + 1].date, b[i + 1].id>> # <<b[j + 1].date, b[j + 1].id>>
            /\ \A i \in 0..(n - 1) :
                  /\ b[i + 1].value = 10 * i
                  /\ ParseDec(b[i + 1].id) = i + 1
                  /\ b[i + 1].id[1] # "0"
                  /\ i + 3 <= n - 1 => b[i + 1].factory_name = b[i + 4].factory_name
                  /\ i + 2 <= n - 1 =>
                        Cardinality({b[i + 1].factory_name, b[i + 2].factory_name,
                                     b[i + 3].factory_name}) = 3

\* a batch long enough for the period to show
C4_Witness == ui.op = "insert" /\ ui.n >= 4 /\ Len(ui.batch) = ui.n

\* the log holds a successful insert of more than i records into name
InsertedOK(name, i) ==
    \E k \in 1..Len(log) :
        /\ log[k].op = "insert"
        /\ log[k].ok
        /\ log[k].name = name
        /\ i < log[k].n

\* the Query workflow has called get_item and the call returned
GetItemReturned ==
    /\ ui.op = "query"
    /\ pc = "idle"
    /\ ui.calls = <<"scan", "query", "get_item">>
    /\ ui.err = "none"

\* C5: after a successful insertBatch(name, n), get_item through the Query
\* workflow with the (date, id) of a generated record finds it and shows its
\* five attributes as generated.
C5_RoundTrip ==
    GetItemReturned =>
        \A i \in 0..(MaxRows - 1) :
            (/\ InsertedOK(ui.name, i)
             /\ q.selected_date = Item(i).date
             /\ q.selected_id = Item(i).id)
            => /\ ui.outcome = "Found"
               /\ ui.shown = Item(i)

\* five records inserted, the third one queried: value 20
C5_Witness ==
    /\ GetItemReturned
    /\ \E k \in 1..Len(log) : log[k].op = "insert" /\ log[k].ok /\ log[k].n = 5
    /\ q.selected_id = <<"3">>
    /\ ui.outcome = "Found"
    /\ ui.shown.value = 20

\* str.lower on the letters of the factory labels
LowerChar(c) == IF c = "F" THEN "f" ELSE c
Lower(s) == [k \in 1..Len(s) |-> LowerChar(s[k])]

\* the filter semantics of the specification
FilterPasses(f, label) == f = <<>> \/ Lower(f) = Lower(label)

\* factory filters an operator may have set: none, a label in lower case,
\* another label
FilterInputs ==
    {<<>>,
     <<"f", "a", "c", "t", "o", "r", "y", "_", "1">>,
     FactoryPrefix \o <<"2">>}

\* C6: a found record is displayed if and only if the factory filter is
\* empty or equals the record's factory label, letter case ignored.
C6_FilterDecidesDisplay ==
    (GetItemReturned /\ ui.outcome \in {"Found", "FilterMismatch"}) =>
        \A f \in FilterInputs :
            (ui.outcome = "Found") <=> FilterPasses(f, ui.shown.factory_name)

\* C7: for every chosen column subset S the displayed result of a found
\* record has exactly the keys of S.
C7_ProjectionKeepsOnlyChosen ==
    (GetItemReturned /\ ui.outcome = "Found") =>
        \A S \in SUBSET Columns : DOMAIN ui.shown = S

\* C8: lookups of absent data in the Query workflow end softly: an empty
\* table reports "no data"; a partition key without sort keys never leads to
\* get_item nor to QueryFailed; get_item that returns reports found or not
\* found.
C8_AbsentDataIsSoft ==
    (ui.op = "query" /\ pc = "idle") =>
        /\ (ui.calls = <<"scan">> /\ ui.err = "none") => ui.outcome = "NoData"
        /\ (/\ q.ids = {}
            /\ \/ Len(ui.calls) = 3
               \/ (Len(ui.calls) = 2 /\ ui.err = "none"))
           => /\ "get_item" \notin Range(ui.calls)
              /\ ui.outcome # "QueryFailed"
        /\ GetItemReturned => ui.outcome \in {"Found", "NotFound"}

\* the error outcome of each action
ErrorOutcome ==
    [create |-> "CreateFailed", insert |-> "InsertFailed",
     fetch |-> "FetchFailed", query |-> "QueryFailed"]

\* C9: when a store call of an action raises, the action ends in its error
\* outcome and waits for the next trigger, the table name and the earlier
\* log entries are kept, and no store call was issued twice.
C9_NoErrorEscapes ==
    [][ui'.err # "none"
          => /\ ui'.outcome = ErrorOutcome[ui'.op]
             /\ pc' = "idle"
             /\ table_name' = table_name
             /\ IsPrefix(log, log')
             /\ Cardinality(Range(ui'.calls)) = Len(ui'.calls)]_vars

\* Fetch Records has caught a store error while the log holds earlier entries
C9_Witness ==
    /\ ui.err # "none"
    /\ ui.outcome = "FetchFailed"
    /\ log # <<>>
    /\ table_name = "T"

\* C10: Fetch Records shows every stored record, and the Query workflow
\* lists every distinct partition key, sorted ascending.
C10_ScanReturnsEverything ==
    /\ (ui.op = "fetch" /\ ui.outcome \in {"Fetched", "Empty"})
          => ui.shown = {Deserialize(x) : x \in store[ui.name]}
    /\ pc = "query"
          => q.dates = Sorted({x.date.S : x \in store[table_name]})
====
